---- MODULE Spec2Model ----
(***************************************************************************)
(* Live job-feed synchronisation and notification logic of the JobsPage    *)
(* component (new-ui-upwork/src/pages/admin/JobsPage.tsx).                 *)
(*                                                                         *)
(* The component is a React function component.  Its state lives in        *)
(* useState cells (a rendered value, and the value queued by the setters   *)
(* that the next render will show), in two useRef cells, in localStorage   *)
(* and in the browser (interval timers, fetches in flight, permission      *)
(* prompts).  The callbacks made by useCallback capture the values of the  *)
(* render that created them; the model keeps every captured value that the *)
(* code reads later.                                                       *)
(***************************************************************************)
EXTENDS Integers, Sequences, FiniteSets, TLC

(***************************************************************************)
(* Bounds of the model.                                                    *)
(***************************************************************************)
MaxSnapLen == 2
MaxTimerIds == 3

(***************************************************************************)
(* Item identifiers as the server may send them: the number 1 ("n1"), the  *)
(* strings "1" and "2" ("s1", "s2"), or no id at all.  String(id) is the   *)
(* normalisation the code applies before every set-membership test.        *)
(***************************************************************************)
NullId == "nil"
RawIds == {"n1", "s1", "s2", NullId}

String(id) ==
    CASE id = "n1" -> "1"
      [] id = "n2" -> "2"
      [] id = "n3" -> "3"
      [] id = "s1" -> "1"
      [] id = "s2" -> "2"
      [] id = NullId -> "null"

Job(id, src) == [id |-> id, status |-> "available", src |-> src]

sampleJobs == << [id |-> "n1", status |-> "available", src |-> "sample"],
                 [id |-> "n2", status |-> "in-progress", src |-> "sample"],
                 [id |-> "n3", status |-> "completed", src |-> "sample"] >>

ApiJobs == {Job(id, "api") : id \in RawIds}

(* The ids of a list, normalised: fetchedData.map(job => String(job.id)).  *)
IdSet(data) == {String(data[i].id) : i \in DOMAIN data}

(* validJobs: the entries whose id is not null. *)
IsValidJob(job) == job.id # NullId
ValidJobs(data) == SelectSeq(data, IsValidJob)

(* A snapshot is the list one fetch returns; the server keys it by id. *)
DistinctIds(data) ==
    \A i, j \in DOMAIN data : i # j => String(data[i].id) # String(data[j].id)

Snapshots ==
    {s \in UNION {[1..n -> ApiJobs] : n \in 0..MaxSnapLen} : DistinctIds(s)}

(* One snapshot per set of ids: the entries in the order of RawIdOrder. *)
RawIdOrder == << "n1", "s1", "s2", NullId >>
IdRank(id) == CHOOSE k \in DOMAIN RawIdOrder : RawIdOrder[k] = id
SnapshotsInOrder ==
    {s \in Snapshots : \A i, j \in DOMAIN s : i < j => IdRank(s[i].id) < IdRank(s[j].id)}

(* Those of them in which every job has an id. *)
IdentifiedSnapshots == {s \in SnapshotsInOrder : ValidJobs(s) = s}

TimerIds == 1..MaxTimerIds
NoTimer == 0

VARIABLES
    phase,                      \* "init" (rendered, effects not yet run), "mounted", "unmounted"
    notificationApi,            \* "Notification" in window
    permission,                 \* Notification.permission
    localStorage,               \* localStorage 'notificationsEnabled'
    notificationsEnabled,       \* rendered useState values
    relevanceFilter,
    pollingInterval,
    isSignedIn,                 \* isLoaded && isSignedIn of useAuth
    pending,                    \* values queued by the setters for the next render
    jobs,
    loading,
    apiError,
    nextPollTime,
    lastRefreshTime,
    previousStrongMatchJobIds,  \* useRef
    isInitialRelevantJobsLoad,  \* useRef
    startPollingInterval,       \* pollingInterval as captured by the memoised startPolling
    pollEffectCleanup,          \* interval the polling effect's cleanup will clear
    unmountCleanup,             \* pollingInterval captured by the stopPolling of the unmount effect
    timers,                     \* active intervals: id and the values captured by the tick callback
    inflight,                   \* fetches whose response has not arrived
    permissionRequests,         \* Notification.requestPermission() calls not yet answered
    responses,                  \* the lists the server may answer with in this session
    observe,                    \* which write-only state and which history this session records
    cycle,                      \* what the fetch continuation that has just run did
    lastStrong,                 \* the last successful strong-match cycle, when it left a
                                \* strong-match fetch of the other kind in flight
    armedFresh,                 \* no successful strong-match cycle since start / enable()
    everEnabled,                \* notifications were enabled at some point of the session
    notifiedSinceArm,           \* ids shown natively since the last re-arm
    notifiedInRun,              \* those of them present in every snapshot fetched since
    lastAll                     \* the ids of the last All-mode snapshot fetched

stateVars == << notificationsEnabled, relevanceFilter, pollingInterval, isSignedIn, pending >>
viewVars == << jobs, loading, apiError, nextPollTime, lastRefreshTime >>
refVars == << previousStrongMatchJobIds, isInitialRelevantJobsLoad >>
hookVars == << startPollingInterval, pollEffectCleanup, unmountCleanup >>
envVars == << notificationApi, permission, localStorage, responses, observe >>
pastVars == << lastStrong, armedFresh, everEnabled, notifiedSinceArm,
               notifiedInRun, lastAll >>
vars == << phase, stateVars, viewVars, refVars, hookVars, envVars, timers, inflight,
           permissionRequests, cycle, pastVars >>

(***************************************************************************)
(* jobs, apiError, lastRefreshTime and nextPollTime are read by no handler *)
(* except the updater of jobs itself, and the history variables by none at *)
(* all.  A session records them only when `observe` names their group:     *)
(*   "feed"      jobs                                                      *)
(*   "display"   apiError, lastRefreshTime, nextPollTime                   *)
(*   "overlap"   lastStrong                                                *)
(*   "arm"       armedFresh                                                *)
(*   "ever"      everEnabled                                               *)
(*   "runs"      notifiedSinceArm, notifiedInRun                           *)
(*   "all"       lastAll                                                   *)
(***************************************************************************)
Record(group, new, old) == IF group \in observe THEN new ELSE old

Rendered == [notificationsEnabled |-> notificationsEnabled,
             relevanceFilter |-> relevanceFilter,
             pollingInterval |-> pollingInterval,
             isSignedIn |-> isSignedIn]

TimerIdsOf(ts) == {t.id : t \in ts}
clearInterval(ts, id) == {t \in ts : t.id # id}

(* setInterval hands out a handle that no live reference still names. *)
FreshTimer(used) == CHOOSE t \in TimerIds \ used : \A u \in TimerIds \ used : t <= u

(* A fetch in flight: which function issued it, its isPolling argument and *)
(* the notificationsEnabled value its closure captured.                    *)
Fetch(fn, isPolling, enabled) == [fn |-> fn, isPolling |-> isPolling, enabled |-> enabled]

NoSnapshot == [has |-> FALSE, ids |-> {}]

NoStrong == [has |-> FALSE, isPolling |-> FALSE, notified |-> {}, new |-> {}]

NoCycle == [kind |-> "none", ok |-> FALSE, isPolling |-> FALSE, enabled |-> FALSE,
            data |-> << >>, jobsBefore |-> << >>, ids |-> {}, valid |-> {}, notified |-> {}, seenBefore |-> {},
            flagBefore |-> TRUE, native |-> {}, jobToasts |-> 0, errorToasts |-> 0,
            summary |-> FALSE, toast |-> "none", first |-> FALSE, prev |-> NoStrong,
            armBefore |-> {}, runBefore |-> {}]

(***************************************************************************)
(* showNotification (lines 170-235) for one job.  Line 173 reads           *)
(* Notification.permission before the capability test of line 175, so the  *)
(* call throws when the browser has no Notification object.                *)
(***************************************************************************)
showNotification(api, perm, ctorThrows) ==
    IF ~api
    THEN [threw |-> TRUE, native |-> FALSE, errorToast |-> FALSE, jobToast |-> FALSE]
    ELSE IF perm = "granted"
    THEN [threw |-> FALSE, native |-> ~ctorThrows, errorToast |-> ctorThrows, jobToast |-> TRUE]
    ELSE [threw |-> FALSE, native |-> FALSE, errorToast |-> FALSE, jobToast |-> TRUE]

(* A response in which every valid job counts as new. *)
AllValidJobs(data, prev) == ValidJobs(data)

(* newStrongMatchJobs of line 266. *)
NewStrongMatchJobs(data, prev) ==
    LET IsNew(job) == String(job.id) \notin prev
    IN  SelectSeq(ValidJobs(data), IsNew)

(* A pass that shows nothing and leaves the refs as (p, i). *)
Quiet(p, i) == [threw |-> FALSE, prev |-> p, initial |-> i, notified |-> {}, native |-> {},
                jobToasts |-> 0, errorToasts |-> 0, summary |-> FALSE]

(***************************************************************************)
(* Lines 266-289: the jobs not in the ref are shown one by one, then the   *)
(* summary toast, then their ids are added to the ref.  failing is the set *)
(* of ids for which `new Notification(...)` throws.                        *)
(***************************************************************************)
DiffAndNotify(data, prev, initial, api, perm, failing) ==
    LET new == NewStrongMatchJobs(data, prev)
        shown(i) == showNotification(api, perm, String(new[i].id) \in failing)
    IN  IF new = << >> THEN Quiet(prev, initial)
        ELSE IF shown(1).threw
        THEN [Quiet(prev, initial) EXCEPT !.threw = TRUE]
        ELSE [threw |-> FALSE,
              prev |-> prev \cup IdSet(new),
              initial |-> initial,
              notified |-> IdSet(new),
              native |-> {String(new[i].id) : i \in {k \in DOMAIN new : shown(k).native}},
              jobToasts |-> Cardinality({i \in DOMAIN new : shown(i).jobToast}),
              errorToasts |-> Cardinality({i \in DOMAIN new : shown(i).errorToast}),
              summary |-> TRUE]

(* The processing without the baseline pass of lines 261-264. *)
ProcessNotificationsNoBaseline(data, enabled, prev, initial, api, perm, failing) ==
    IF ~enabled THEN Quiet(prev, initial)
    ELSE DiffAndNotify(data, prev, FALSE, api, perm, failing)

(* The processing without the test of line 257. *)
ProcessNotificationsAlways(data, enabled, prev, initial, api, perm, failing) ==
    IF initial THEN Quiet(IdSet(ValidJobs(data)), FALSE)
    ELSE DiffAndNotify(data, prev, initial, api, perm, failing)

(***************************************************************************)
(* Lines 256-291 of fetchJobsByRelevance: the notification processing of a *)
(* strong-match response `data`.  enabled is the notificationsEnabled      *)
(* captured by the closure.                                                *)
(***************************************************************************)
ProcessNotifications(data, enabled, prev, initial, api, perm, failing) ==
    LET currentJobIds == IdSet(ValidJobs(data))
    IN  IF ~enabled THEN Quiet(prev, initial)
        ELSE IF initial THEN Quiet(currentJobIds, FALSE)
        ELSE DiffAndNotify(data, prev, initial, api, perm, failing)

(* The ref left as the notification processing set it. *)
KeepTrackingRef(prev, fetchedData) == prev

(* Line 293: the ref is overwritten with the ids of the whole response,    *)
(* whatever lines 257-290 left in it.                                      *)
UpdateTrackingRef(prev, fetchedData) == IdSet(fetchedData)

(* A poll that puts the jobs it brings after the list. *)
MergeJobsAppend(prevJobs, fetchedData, relevance, isPolling) ==
    IF relevance = "all" \/ ~isPolling
    THEN fetchedData
    ELSE LET existingJobIds == IdSet(prevJobs)
             IsNew(job) == String(job.id) \notin existingJobIds
         IN  prevJobs \o SelectSeq(fetchedData, IsNew)

(* An updater that merges whatever the kind of the fetch. *)
MergeJobsAlways(prevJobs, fetchedData, relevance, isPolling) ==
    LET existingJobIds == IdSet(prevJobs)
        IsNew(job) == String(job.id) \notin existingJobIds
    IN  SelectSeq(fetchedData, IsNew) \o prevJobs

(* A poll that puts its whole snapshot in front of the list. *)
MergeJobsUnfiltered(prevJobs, fetchedData, relevance, isPolling) ==
    IF relevance = "all" \/ ~isPolling
    THEN fetchedData
    ELSE fetchedData \o prevJobs

(* The updater passed to setJobs at lines 298-309. *)
MergeJobs(prevJobs, fetchedData, relevance, isPolling) ==
    IF relevance = "all" \/ ~isPolling
    THEN fetchedData
    ELSE LET existingJobIds == IdSet(prevJobs)
             IsNew(job) == String(job.id) \notin existingJobIds
             newJobsToAdd == SelectSeq(fetchedData, IsNew)
         IN  IF Len(newJobsToAdd) > 0 THEN newJobsToAdd \o prevJobs ELSE prevJobs


(* The component after its first render, before any effect has run. *)
Constructed ==
    /\ phase = "init"
    /\ notificationsEnabled = (localStorage = "true")
    /\ relevanceFilter = "strong"
    /\ pollingInterval = NoTimer
    /\ pending = Rendered
    /\ jobs = << >>
    /\ loading = TRUE
    /\ apiError = FALSE
    /\ nextPollTime = "initial"
    /\ lastRefreshTime = "initial"
    /\ previousStrongMatchJobIds = {}
    /\ isInitialRelevantJobsLoad = TRUE
    /\ startPollingInterval = NoTimer
    /\ pollEffectCleanup = NoTimer
    /\ unmountCleanup = NoTimer
    /\ timers = {}
    /\ inflight = {}
    /\ permissionRequests = {}
    /\ cycle = NoCycle
    /\ lastStrong = NoStrong
    /\ armedFresh = TRUE
    /\ everEnabled = notificationsEnabled
    /\ notifiedSinceArm = {}
    /\ notifiedInRun = {}
    /\ lastAll = NoSnapshot

Browsers == {b \in [api : BOOLEAN, permission : {"default", "granted", "denied"}] :
                ~b.api => b.permission = "default"}

Init ==
    /\ \E b \in Browsers : notificationApi = b.api /\ permission = b.permission
    /\ localStorage \in {"unset", "true", "false"}
    /\ isSignedIn \in BOOLEAN
    /\ responses = Snapshots
    /\ observe = {}
    /\ Constructed

Mounted == phase = "mounted"

(***************************************************************************)
(* React renders an update queued by a user event, by the permission       *)
(* prompt or by useAuth before the browser dispatches the next event: no   *)
(* other handler runs while such an update is queued.  The polling effect  *)
(* queues pollingInterval itself, from inside the commit, so that update   *)
(* waits for a later task and other events may run before it.              *)
(***************************************************************************)
InputQueued ==
    \/ phase = "init"
    \/ /\ Mounted
       /\ \/ pending.notificationsEnabled # notificationsEnabled
          \/ pending.relevanceFilter # relevanceFilter
          \/ pending.isSignedIn # isSignedIn

(* A step that is not a fetch continuation leaves no cycle to look at. *)
NoCompletion == cycle' = NoCycle /\ UNCHANGED pastVars

(***************************************************************************)
(* startPolling (lines 400-417), run on the set of active intervals.       *)
(* captured is the pollingInterval the memoised callback closed over: the  *)
(* dependency list of line 417 does not name pollingInterval.  The tick    *)
(* callback closes over relevanceFilter and notificationsEnabled.          *)
(***************************************************************************)
startPolling(ts, captured, interval, filter, enabled) ==
    (IF captured # NoTimer THEN clearInterval(ts, captured) ELSE ts)
        \cup {[id |-> interval, relevanceFilter |-> filter, notificationsEnabled |-> enabled]}

(* stopPolling (lines 420-425); captured is its pollingInterval. *)
stopPolling(ts, captured) ==
    IF captured # NoTimer THEN clearInterval(ts, captured) ELSE ts

(* A cleanup that clears nothing. *)
NoCleanup(ts, interval) == ts

(* The cleanup returned by the polling effect (lines 465-467). *)
PollEffectCleanup(ts, interval) ==
    IF interval # NoTimer THEN clearInterval(ts, interval) ELSE ts

(***************************************************************************)
(* One render and commit: the queued state becomes the rendered state, the *)
(* useCallback hooks whose dependencies changed are re-created, the        *)
(* cleanups of the effects whose dependencies changed run in hook order,   *)
(* then those effects run in hook order (lines 428-478).                   *)
(***************************************************************************)
Render ==
    /\ phase = "init" \/ (phase = "mounted" /\ pending # Rendered)
    /\ LET mount == phase = "init"
           new == pending
           changedNE == mount \/ new.notificationsEnabled # notificationsEnabled
           changedRF == mount \/ new.relevanceFilter # relevanceFilter
           changedPI == mount \/ new.pollingInterval # pollingInterval
           changedAuth == mount \/ new.isSignedIn # isSignedIn
           strongOn == new.relevanceFilter = "strong" /\ new.notificationsEnabled
           \* useCallback: startPolling is re-created only for the dependencies of line 417
           captured == IF changedRF \/ changedNE THEN new.pollingInterval
                       ELSE startPollingInterval
           runNextPoll == changedRF \/ changedNE             \* effect of lines 428-432
           runInitial == changedAuth \/ changedNE            \* effect of lines 434-450
           runFilter == changedRF \/ changedNE               \* effect of lines 453-459
           runPoll == changedRF \/ changedNE \/ changedPI    \* effect of lines 462-471
           runUnmount == changedPI                           \* effect of lines 474-478
           \* cleanups, in hook order
           t1 == IF runPoll THEN PollEffectCleanup(timers, pollEffectCleanup) ELSE timers
           stopOld == runUnmount /\ ~mount /\ unmountCleanup # NoTimer
           t2 == IF runUnmount /\ ~mount THEN stopPolling(t1, unmountCleanup) ELSE t1
           \* effects, in hook order
           initialFetch == IF runInitial /\ new.isSignedIn
                           THEN {Fetch("relevance", FALSE, new.notificationsEnabled)}
                           ELSE {}
           askPermission == runInitial /\ new.isSignedIn /\ notificationApi
                            /\ permission # "granted"
           filterFetch == IF ~runFilter THEN {}
                          ELSE IF new.relevanceFilter = "strong"
                          THEN {Fetch("relevance", FALSE, new.notificationsEnabled)}
                          ELSE {Fetch("data", FALSE, FALSE)}
           used == TimerIdsOf(t2) \cup {new.pollingInterval, captured}
           interval == FreshTimer(used)
           starts == runPoll /\ strongOn
           stops == runPoll /\ ~strongOn
       IN  /\ starts => TimerIds \ used # {}
           /\ phase' = "mounted"
           /\ notificationsEnabled' = new.notificationsEnabled
           /\ relevanceFilter' = new.relevanceFilter
           /\ pollingInterval' = new.pollingInterval
           /\ isSignedIn' = new.isSignedIn
           /\ startPollingInterval' = captured
           /\ timers' = IF starts
                        THEN startPolling(t2, captured, interval, new.relevanceFilter,
                                          new.notificationsEnabled)
                        ELSE IF stops THEN stopPolling(t2, new.pollingInterval)
                        ELSE t2
           /\ pending' = [new EXCEPT !.pollingInterval =
                            IF starts THEN interval
                            ELSE IF stops /\ new.pollingInterval # NoTimer THEN NoTimer
                            ELSE IF stopOld THEN NoTimer
                            ELSE new.pollingInterval]
           /\ pollEffectCleanup' = IF starts THEN interval
                                   ELSE IF stops THEN NoTimer
                                   ELSE pollEffectCleanup
           /\ unmountCleanup' = IF runUnmount THEN new.pollingInterval ELSE unmountCleanup
           /\ nextPollTime' = Record("display",
                                     IF starts \/ (runNextPoll /\ strongOn) THEN "in90s"
                                     ELSE nextPollTime,
                                     nextPollTime)
           /\ inflight' = inflight \cup initialFetch \cup filterFetch
           /\ loading' = IF initialFetch \cup filterFetch # {} THEN TRUE ELSE loading
           /\ permissionRequests' = IF askPermission THEN permissionRequests \cup {"mount"}
                                    ELSE permissionRequests
    /\ NoCompletion
    /\ UNCHANGED << jobs, apiError, lastRefreshTime, refVars, envVars >>

(***************************************************************************)
(* The component is removed: every effect's cleanup runs (lines 465-467    *)
(* and 475-477).  Setters called afterwards have no effect.                *)
(***************************************************************************)
Unmount ==
    /\ phase = "mounted"
    /\ ~InputQueued
    /\ phase' = "unmounted"
    /\ timers' = stopPolling(PollEffectCleanup(timers, pollEffectCleanup), unmountCleanup)
    /\ pollEffectCleanup' = NoTimer
    /\ unmountCleanup' = NoTimer
    /\ NoCompletion
    /\ UNCHANGED << stateVars, viewVars, refVars, startPollingInterval, envVars, inflight,
                    permissionRequests >>

(* The header controls are rendered only past the early returns of lines   *)
(* 558-570.                                                                *)
ControlsShown == Mounted /\ ~InputQueued /\ isSignedIn /\ ~loading

(* What toggleNotifications did in this step and the toast it showed      *)
(* (lines 347-350, 360-363, 367-371 and 383-386).                          *)
Toggled(kind, toast) ==
    Record("toasts", [NoCycle EXCEPT !.kind = kind, !.toast = toast], NoCycle)

(* The re-arm of lines 344-345, 357-358 and 380-381. *)
Rearm ==
    /\ previousStrongMatchJobIds' = {}
    /\ isInitialRelevantJobsLoad' = TRUE
    /\ notifiedSinceArm' = {}
    /\ notifiedInRun' = {}
    /\ UNCHANGED << lastStrong, lastAll >>

(* An enable that leaves the refs as they are. *)
EnableNoRearm ==
    /\ pending' = IF Mounted THEN [pending EXCEPT !.notificationsEnabled = TRUE] ELSE pending
    /\ localStorage' = "true"
    /\ cycle' = Toggled("enable", "Notifications Enabled")
    /\ everEnabled' = Record("ever", TRUE, everEnabled)
    /\ armedFresh' = Record("arm", TRUE, armedFresh)
    /\ UNCHANGED << refVars, notifiedSinceArm, notifiedInRun, lastStrong, lastAll >>

(* Lines 341-345 and 355-358: enable, persist, re-arm the baseline. *)
Enable ==
    /\ pending' = IF Mounted THEN [pending EXCEPT !.notificationsEnabled = TRUE] ELSE pending
    /\ localStorage' = "true"
    /\ Rearm
    /\ cycle' = Toggled("enable", "Notifications Enabled")
    /\ everEnabled' = Record("ever", TRUE, everEnabled)
    /\ armedFresh' = Record("arm", TRUE, armedFresh)

(* A disable that leaves the refs as they are. *)
DisableNoRearm ==
    /\ pending' = [pending EXCEPT !.notificationsEnabled = FALSE]
    /\ localStorage' = "false"
    /\ cycle' = Toggled("disable", "Notifications Disabled")
    /\ UNCHANGED << refVars, pastVars >>

(* A disable that does not store the preference. *)
DisableNotStored ==
    /\ pending' = [pending EXCEPT !.notificationsEnabled = FALSE]
    /\ Rearm
    /\ cycle' = Toggled("disable", "Notifications Disabled")
    /\ UNCHANGED << localStorage, everEnabled, armedFresh >>

(* Lines 378-381: disable, persist, re-arm the baseline. *)
Disable ==
    /\ pending' = [pending EXCEPT !.notificationsEnabled = FALSE]
    /\ localStorage' = "false"
    /\ Rearm
    /\ cycle' = Toggled("disable", "Notifications Disabled")
    /\ UNCHANGED << everEnabled, armedFresh >>

(* toggleNotifications (lines 336-388) up to its first await. *)
toggleNotifications ==
    /\ ControlsShown
    /\ \/ /\ ~notificationsEnabled
          /\ notificationApi
          /\ permission = "granted"
          /\ Enable
          /\ UNCHANGED permissionRequests
       \/ /\ ~notificationsEnabled
          /\ notificationApi
          /\ permission # "granted"
          /\ permissionRequests' = permissionRequests \cup {"toggle"}
          /\ NoCompletion
          /\ UNCHANGED << pending, localStorage, refVars >>
       \/ /\ notificationsEnabled
          /\ Disable
          /\ UNCHANGED permissionRequests
    /\ UNCHANGED << phase, notificationsEnabled, relevanceFilter, pollingInterval, isSignedIn,
                    viewVars, hookVars, notificationApi, permission, responses, observe,
                    timers, inflight >>

(* A refusal that stores the preference 'false'. *)
RefusedAndStored(src, answer) ==
    /\ cycle' = IF src # "toggle" THEN NoCycle
                ELSE IF answer = "error" THEN Toggled("error", "none")
                ELSE Toggled("denied", "Notification Permission Denied")
    /\ localStorage' = IF src = "toggle" THEN "false" ELSE localStorage
    /\ UNCHANGED << pending, refVars, pastVars >>

(***************************************************************************)
(* The request did not end in a grant.  The toggle shows the toast of      *)
(* lines 367-371 when the answer is not 'granted' and only logs a request  *)
(* that threw (line 374); the mount effect only logs (lines 443-447).      *)
(***************************************************************************)
Refused(src, answer) ==
    /\ cycle' = IF src # "toggle" THEN NoCycle
                ELSE IF answer = "error" THEN Toggled("error", "none")
                ELSE Toggled("denied", "Notification Permission Denied")
    /\ UNCHANGED << pending, localStorage, refVars, pastVars >>

PermissionAnswers ==
    IF permission = "default" THEN {"granted", "denied", "default", "error"} ELSE {permission}

(***************************************************************************)
(* Notification.requestPermission() settles: the continuation of line 354  *)
(* (src = "toggle") or of line 442 (src = "mount", which only logs).       *)
(***************************************************************************)
ResolvePermission ==
    \E src \in permissionRequests, answer \in PermissionAnswers :
        /\ ~InputQueued
        /\ permissionRequests' = permissionRequests \ {src}
        /\ permission' = IF answer = "error" THEN permission ELSE answer
        /\ IF src = "toggle" /\ answer = "granted" THEN Enable ELSE Refused(src, answer)
        /\ UNCHANGED << phase, notificationsEnabled, relevanceFilter, pollingInterval,
                        isSignedIn, viewVars, hookVars, notificationApi, responses, observe,
                        timers, inflight >>

(* handleManualRefresh (lines 391-397): the Refresh button. *)
handleManualRefresh ==
    /\ ControlsShown
    /\ inflight' = inflight \cup
                      {IF relevanceFilter = "strong"
                       THEN Fetch("relevance", FALSE, notificationsEnabled)
                       ELSE Fetch("data", FALSE, FALSE)}
    /\ loading' = TRUE
    /\ NoCompletion
    /\ UNCHANGED << phase, stateVars, jobs, apiError, nextPollTime, lastRefreshTime, refVars,
                    hookVars, envVars, timers, permissionRequests >>

(* The relevance selector: setRelevanceFilter(value). *)
setRelevanceFilter ==
    /\ ControlsShown
    /\ \E value \in {"all", "strong"} :
          /\ value # pending.relevanceFilter
          /\ pending' = [pending EXCEPT !.relevanceFilter = value]
    /\ NoCompletion
    /\ UNCHANGED << phase, notificationsEnabled, relevanceFilter, pollingInterval, isSignedIn,
                    viewVars, refVars, hookVars, envVars, timers, inflight,
                    permissionRequests >>

(* useAuth reports a loaded, signed-in session. *)
AuthChange ==
    /\ Mounted
    /\ ~InputQueued
    /\ ~pending.isSignedIn
    /\ pending' = [pending EXCEPT !.isSignedIn = TRUE]
    /\ NoCompletion
    /\ UNCHANGED << phase, notificationsEnabled, relevanceFilter, pollingInterval, isSignedIn,
                    viewVars, refVars, hookVars, envVars, timers, inflight,
                    permissionRequests >>

(* Two of the statuses offered by the Edit Status dialog (lines 1166-1171): *)
(* the one the server sends and one it never sends.                        *)
StatusChoices == {"available", "rejected"}

(* The updater of line 1176: the entries whose id is that of the job the   *)
(* dialog was opened for get the selected status.                          *)
SetStatus(prevJobs, id, status) ==
    [k \in DOMAIN prevJobs |->
        IF prevJobs[k].id = id THEN [prevJobs[k] EXCEPT !.status = status] ELSE prevJobs[k]]

(***************************************************************************)
(* The Save button of the Edit Status dialog (lines 1175-1179), opened for *)
(* a job of the list by the button of line 919: a local edit of the list,  *)
(* sent to no server.                                                      *)
(***************************************************************************)
saveStatus ==
    /\ ControlsShown
    /\ \E i \in DOMAIN jobs, selectedStatus \in StatusChoices :
          /\ selectedStatus # jobs[i].status
          /\ jobs' = Record("feed", SetStatus(jobs, jobs[i].id, selectedStatus), jobs)
    /\ NoCompletion
    /\ UNCHANGED << phase, stateVars, loading, apiError, nextPollTime, lastRefreshTime,
                    refVars, hookVars, envVars, timers, inflight, permissionRequests >>

(* The interval callback of lines 405-412 fires. *)
Tick ==
    \E t \in timers :
        /\ ~InputQueued
        /\ t.relevanceFilter = "strong" /\ t.notificationsEnabled
        /\ inflight' = inflight \cup {Fetch("relevance", TRUE, t.notificationsEnabled)}
        /\ nextPollTime' = Record("display", IF Mounted THEN "in90s" ELSE nextPollTime,
                                  nextPollTime)
        /\ NoCompletion
        /\ UNCHANGED << phase, stateVars, jobs, loading, apiError, lastRefreshTime, refVars,
                        hookVars, envVars, timers, permissionRequests >>

(* Several identical requests may be in flight: `more` says whether one of *)
(* the same kind is still outstanding after this response.                 *)
Arrived(d, more) == IF more THEN inflight ELSE inflight \ {d}

(* The ids for which the Notification constructor may throw; which ones  *)
(* makes a difference only to the alerts shown.                            *)
CtorFailures(data) ==
    IF notificationApi /\ permission = "granted"
    THEN Record("alerts", SUBSET IdSet(NewStrongMatchJobs(data, previousStrongMatchJobIds)),
                {{}})
    ELSE {{}}

Silent == [threw |-> FALSE, notified |-> {}, native |-> {}, jobToasts |-> 0,
           errorToasts |-> 0, summary |-> FALSE]

(***************************************************************************)
(* What the continuation that runs in this step did, and the state it saw. *)
(* It is there for the state right after the continuation only; a session  *)
(* keeps the parts `observe` names:                                        *)
(*   "ids"      ids, valid, notified                                       *)
(*   "before"   seenBefore, flagBefore                                     *)
(*   "alerts"   native, jobToasts, errorToasts, summary                    *)
(*   "feed"     data, jobsBefore                                           *)
(*   "toasts"   toast, and kind after toggleNotifications                  *)
(* and the history variables as they were before it.                       *)
(***************************************************************************)
Completed(kind, d, ok, data, r) ==
    [kind |-> kind, ok |-> ok, isPolling |-> d.isPolling, enabled |-> d.enabled,
     data |-> Record("feed", data, << >>),
     jobsBefore |-> Record("feed", jobs, << >>),
     ids |-> Record("ids", IdSet(data), {}),
     valid |-> Record("ids", IdSet(ValidJobs(data)), {}),
     notified |-> Record("ids", r.notified, {}),
     seenBefore |-> Record("before", previousStrongMatchJobIds, {}),
     flagBefore |-> Record("before", isInitialRelevantJobsLoad, TRUE),
     native |-> Record("alerts", r.native, {}),
     jobToasts |-> Record("alerts", r.jobToasts, 0),
     errorToasts |-> Record("alerts", r.errorToasts, 0),
     summary |-> Record("alerts", r.summary, FALSE),
     toast |-> Record("toasts", IF ~ok /\ ~d.isPolling THEN "API Unavailable" ELSE "none",
                      "none"),
     first |-> armedFresh, prev |-> lastStrong,
     armBefore |-> notifiedSinceArm, runBefore |-> notifiedInRun]

(* A catch block that falls back to the sample data after a poll too. *)
RelevanceCatchAlways(d) ==
    /\ jobs' = Record("feed", IF Mounted THEN sampleJobs ELSE jobs, jobs)
    /\ apiError' = Record("display", IF Mounted THEN TRUE ELSE apiError, apiError)
    /\ loading' = IF ~d.isPolling /\ Mounted THEN FALSE ELSE loading
    /\ UNCHANGED << lastRefreshTime, refVars, pastVars >>

(* A finally block that clears the loading indicator after a poll too. *)
RelevanceCatchClearsLoading(d) ==
    /\ jobs' = Record("feed", IF ~d.isPolling /\ Mounted THEN sampleJobs ELSE jobs, jobs)
    /\ apiError' = Record("display", IF ~d.isPolling /\ Mounted THEN TRUE ELSE apiError,
                          apiError)
    /\ loading' = IF Mounted THEN FALSE ELSE loading
    /\ UNCHANGED << lastRefreshTime, refVars, pastVars >>

(* A catch block that forgets the seen ids. *)
RelevanceCatchRearms(d) ==
    /\ jobs' = Record("feed", IF ~d.isPolling /\ Mounted THEN sampleJobs ELSE jobs, jobs)
    /\ apiError' = Record("display", IF ~d.isPolling /\ Mounted THEN TRUE ELSE apiError,
                          apiError)
    /\ loading' = IF ~d.isPolling /\ Mounted THEN FALSE ELSE loading
    /\ previousStrongMatchJobIds' = {}
    /\ isInitialRelevantJobsLoad' = TRUE
    /\ UNCHANGED << lastRefreshTime, pastVars >>

(* The catch and finally blocks of lines 317-333. *)
RelevanceCatch(d) ==
    /\ jobs' = Record("feed", IF ~d.isPolling /\ Mounted THEN sampleJobs ELSE jobs, jobs)
    /\ apiError' = Record("display", IF ~d.isPolling /\ Mounted THEN TRUE ELSE apiError,
                          apiError)
    /\ loading' = IF ~d.isPolling /\ Mounted THEN FALSE ELSE loading
    /\ UNCHANGED << lastRefreshTime, refVars, pastVars >>

(***************************************************************************)
(* The response of a strong-match request arrives with status 200 and the  *)
(* rest of fetchJobsByRelevance runs (lines 253-316 and 329-333, or the    *)
(* catch of 317-328 when showNotification throws).                         *)
(***************************************************************************)
FetchRelevanceOk ==
    \E d \in inflight, more \in BOOLEAN, data \in responses :
      \E failing \in CtorFailures(data) :
        /\ ~InputQueued
        /\ d.fn = "relevance"
        /\ inflight' = Arrived(d, more)
        /\ LET r == ProcessNotifications(data, d.enabled, previousStrongMatchJobIds,
                                         isInitialRelevantJobsLoad, notificationApi,
                                         permission, failing)
               other == \E f \in Arrived(d, more) :
                           f.fn = "relevance" /\ f.isPolling # d.isPolling
               diffed == d.enabled /\ ~isInitialRelevantJobsLoad
               last == [has |-> TRUE, isPolling |-> d.isPolling, notified |-> r.notified,
                        new |-> IF diffed
                                THEN IdSet(NewStrongMatchJobs(data, previousStrongMatchJobIds))
                                ELSE {}]
           IN  IF r.threw
               THEN /\ RelevanceCatch(d)
                    /\ cycle' = Completed("relevance", d, FALSE, data, r)
               ELSE /\ previousStrongMatchJobIds' = UpdateTrackingRef(r.prev, data)
                    /\ isInitialRelevantJobsLoad' = r.initial
                    /\ jobs' = Record("feed",
                                      IF Mounted
                                      THEN MergeJobs(jobs, data, "strong", d.isPolling)
                                      ELSE jobs,
                                      jobs)
                    /\ apiError' = Record("display", IF Mounted THEN FALSE ELSE apiError,
                                          apiError)
                    /\ lastRefreshTime' = Record("display",
                                                 IF ~d.isPolling /\ Mounted THEN "now"
                                                 ELSE lastRefreshTime,
                                                 lastRefreshTime)
                    /\ loading' = IF ~d.isPolling /\ Mounted THEN FALSE ELSE loading
                    /\ cycle' = Completed("relevance", d, TRUE, data, r)
                    /\ lastStrong' = Record("overlap", IF other THEN last ELSE NoStrong,
                                            lastStrong)
                    /\ armedFresh' = Record("arm", FALSE, armedFresh)
                    /\ notifiedSinceArm' = Record("runs", notifiedSinceArm \cup r.native,
                                                  notifiedSinceArm)
                    /\ notifiedInRun' = Record("runs",
                                               (notifiedInRun \cap IdSet(data)) \cup r.native,
                                               notifiedInRun)
                    /\ UNCHANGED << everEnabled, lastAll >>
        /\ UNCHANGED << phase, stateVars, nextPollTime, hookVars, envVars, timers,
                        permissionRequests >>

(* The strong-match request fails: non-2xx status or network error. *)
FetchRelevanceFail ==
    \E d \in inflight, more \in BOOLEAN :
        /\ ~InputQueued
        /\ d.fn = "relevance"
        /\ inflight' = Arrived(d, more)
        /\ RelevanceCatch(d)
        /\ cycle' = Completed("relevance", d, FALSE, << >>, Silent)
        /\ UNCHANGED << phase, stateVars, nextPollTime, hookVars, envVars, timers,
                        permissionRequests >>

(* fetchJobsData (lines 145-168), success path. *)
FetchDataOk ==
    \E d \in inflight, more \in BOOLEAN, data \in responses :
        /\ ~InputQueued
        /\ d.fn = "data"
        /\ inflight' = Arrived(d, more)
        /\ jobs' = Record("feed", IF Mounted THEN data ELSE jobs, jobs)
        /\ apiError' = Record("display", IF Mounted THEN FALSE ELSE apiError, apiError)
        /\ lastRefreshTime' = Record("display", IF Mounted THEN "now" ELSE lastRefreshTime,
                                     lastRefreshTime)
        /\ loading' = IF Mounted THEN FALSE ELSE loading
        /\ cycle' = Completed("data", d, TRUE, data, Silent)
        /\ lastAll' = Record("all", [has |-> TRUE, ids |-> IdSet(data)], lastAll)
        /\ UNCHANGED << phase, stateVars, nextPollTime, refVars, hookVars, envVars, timers,
                        permissionRequests, lastStrong, armedFresh, everEnabled,
                        notifiedSinceArm, notifiedInRun >>

(* fetchJobsData, catch and finally. *)
FetchDataFail ==
    \E d \in inflight, more \in BOOLEAN :
        /\ ~InputQueued
        /\ d.fn = "data"
        /\ inflight' = Arrived(d, more)
        /\ jobs' = Record("feed", IF Mounted THEN sampleJobs ELSE jobs, jobs)
        /\ apiError' = Record("display", IF Mounted THEN TRUE ELSE apiError, apiError)
        /\ loading' = IF Mounted THEN FALSE ELSE loading
        /\ cycle' = Completed("data", d, FALSE, << >>, Silent)
        /\ UNCHANGED << phase, stateVars, nextPollTime, lastRefreshTime, refVars, hookVars,
                        envVars, timers, permissionRequests, pastVars >>

Next ==
    \/ Render
    \/ Unmount
    \/ toggleNotifications
    \/ ResolvePermission
    \/ handleManualRefresh
    \/ setRelevanceFilter
    \/ AuthChange
    \/ Tick
    \/ FetchRelevanceOk
    \/ FetchRelevanceFail
    \/ FetchDataOk
    \/ FetchDataFail
    \/ saveStatus

Spec == Init /\ [][Next]_vars


(***************************************************************************)
(* Sessions of a signed-in user whose browser has granted the permission:  *)
(* the notification bookkeeping.                                           *)
(***************************************************************************)
NotifySession(obs) ==
    /\ notificationApi = TRUE
    /\ permission = "granted"
    /\ localStorage \in {"true", "false"}
    /\ isSignedIn = TRUE
    /\ responses = SnapshotsInOrder
    /\ observe = obs
    /\ Constructed

InitDiff == NotifySession({"ids", "before", "arm"})
InitOnce == NotifySession({"alerts", "runs"})
InitOverlap == NotifySession({"ids", "overlap"})

NextNotify ==
    \/ Render
    \/ toggleNotifications
    \/ handleManualRefresh
    \/ Tick
    \/ FetchRelevanceOk
    \/ FetchRelevanceFail

SpecDiff == InitDiff /\ [][NextNotify]_vars
SpecOnce == InitOnce /\ [][NextNotify]_vars
SpecOverlap == InitOverlap /\ [][NextNotify]_vars

(* Sessions whose server always answers with the empty list: the timer. *)
InitTimer ==
    /\ \E b \in Browsers : notificationApi = b.api /\ permission = b.permission
    /\ localStorage \in {"unset", "true", "false"}
    /\ isSignedIn \in BOOLEAN
    /\ responses = {<< >>}
    /\ observe = {}
    /\ Constructed

NextTimer ==
    \/ Render
    \/ Unmount
    \/ toggleNotifications
    \/ ResolvePermission
    \/ handleManualRefresh
    \/ setRelevanceFilter
    \/ AuthChange
    \/ Tick
    \/ FetchRelevanceOk
    \/ FetchRelevanceFail
    \/ FetchDataOk
    \/ FetchDataFail

SpecTimer == InitTimer /\ [][NextTimer]_vars

(***************************************************************************)
(* Sessions in which notifications are off from the start and the toggle   *)
(* is never used: no timer is ever started.                                *)
(***************************************************************************)
InitQuiet ==
    /\ \E b \in Browsers : notificationApi = b.api /\ permission = b.permission
    /\ localStorage \in {"unset", "false"}
    /\ isSignedIn \in BOOLEAN
    /\ responses = SnapshotsInOrder
    /\ observe = {"alerts", "feed", "ever"}
    /\ Constructed

NextQuiet ==
    \/ Render
    \/ Unmount
    \/ ResolvePermission
    \/ handleManualRefresh
    \/ setRelevanceFilter
    \/ AuthChange
    \/ FetchRelevanceOk
    \/ FetchRelevanceFail
    \/ FetchDataOk
    \/ FetchDataFail

SpecQuiet == InitQuiet /\ [][NextQuiet]_vars

(***************************************************************************)
(* Sessions of a signed-in user with notifications on, who edits statuses  *)
(* in the list while it is polled, refreshed and switched between the two  *)
(* relevance modes: the list shown.                                        *)
(***************************************************************************)
InitFeed ==
    /\ notificationApi = TRUE
    /\ permission = "granted"
    /\ localStorage = "true"
    /\ isSignedIn = TRUE
    /\ responses = IdentifiedSnapshots
    /\ observe = {"feed"}
    /\ Constructed

NextFeed ==
    \/ Render
    \/ handleManualRefresh
    \/ setRelevanceFilter
    \/ Tick
    \/ FetchRelevanceOk
    \/ FetchDataOk
    \/ saveStatus

SpecFeed == InitFeed /\ [][NextFeed]_vars

(* The same sessions with a server that may fail any request, the manual   *)
(* refresh left out: every way in which the list is written.               *)
NextList ==
    \/ Render
    \/ setRelevanceFilter
    \/ Tick
    \/ FetchRelevanceOk
    \/ FetchRelevanceFail
    \/ FetchDataOk
    \/ FetchDataFail
    \/ saveStatus

SpecList == InitFeed /\ [][NextList]_vars

(***************************************************************************)
(* Sessions that stay in strong-match mode with notifications on: the list *)
(* is loaded once, then polled and edited.                                 *)
(***************************************************************************)
InitPoll ==
    /\ notificationApi = TRUE
    /\ permission = "granted"
    /\ localStorage = "true"
    /\ isSignedIn = TRUE
    /\ responses = SnapshotsInOrder
    /\ observe = {"feed"}
    /\ Constructed

NextPoll ==
    \/ Render
    \/ Tick
    \/ FetchRelevanceOk
    \/ saveStatus

SpecPoll == InitPoll /\ [][NextPoll]_vars

(***************************************************************************)
(* Sessions of a signed-in user in any browser who uses the bell and       *)
(* answers the permission prompt while the strong matches are loaded and   *)
(* polled: the toggle.                                                     *)
(***************************************************************************)
InitToggle ==
    /\ \E b \in Browsers : notificationApi = b.api /\ permission = b.permission
    /\ localStorage \in {"unset", "true", "false"}
    /\ isSignedIn = TRUE
    /\ responses = IdentifiedSnapshots
    /\ observe = {"toasts"}
    /\ Constructed

NextToggle ==
    \/ Render
    \/ Unmount
    \/ toggleNotifications
    \/ ResolvePermission
    \/ Tick
    \/ FetchRelevanceOk

SpecToggle == InitToggle /\ [][NextToggle]_vars

(***************************************************************************)
(* Sessions with notifications on whose server may fail any request, in    *)
(* both modes: what a failure shows.                                       *)
(***************************************************************************)
InitFail ==
    /\ notificationApi = TRUE
    /\ permission = "granted"
    /\ localStorage = "true"
    /\ isSignedIn = TRUE
    /\ responses = IdentifiedSnapshots
    /\ observe = {"feed", "display", "toasts", "alerts"}
    /\ Constructed

NextFail ==
    \/ Render
    \/ handleManualRefresh
    \/ setRelevanceFilter
    \/ Tick
    \/ FetchRelevanceOk
    \/ FetchRelevanceFail
    \/ FetchDataOk
    \/ FetchDataFail

SpecFail == InitFail /\ [][NextFail]_vars

(***************************************************************************)
(* Sessions that start with notifications on, stored by an earlier visit,  *)
(* in any browser: with or without the Notification API, the permission    *)
(* granted, denied or still to be asked.  What showNotification shows.     *)
(***************************************************************************)
InitAlert ==
    /\ \E b \in Browsers : notificationApi = b.api /\ permission = b.permission
    /\ localStorage = "true"
    /\ isSignedIn = TRUE
    /\ responses = IdentifiedSnapshots
    /\ observe = {"feed", "before", "alerts"}
    /\ Constructed

NextAlert ==
    \/ Render
    \/ ResolvePermission
    \/ Tick
    \/ FetchRelevanceOk

SpecAlert == InitAlert /\ [][NextAlert]_vars

(***************************************************************************)
(* Sessions in which the bell and the relevance selector stop and restart  *)
(* the polling while fetches are in flight: what a fetch does that         *)
(* outlives the state it was started in.                                   *)
(***************************************************************************)
InitIdle ==
    /\ notificationApi = TRUE
    /\ permission = "granted"
    /\ localStorage = "true"
    /\ isSignedIn = TRUE
    /\ responses = IdentifiedSnapshots
    /\ observe = {"feed"}
    /\ Constructed

NextIdle ==
    \/ Render
    \/ toggleNotifications
    \/ setRelevanceFilter
    \/ Tick
    \/ FetchRelevanceOk
    \/ FetchDataOk

SpecIdle == InitIdle /\ [][NextIdle]_vars

(* The snapshots of a server that has one job at most. *)
OneJobSnapshots == {s \in IdentifiedSnapshots : \A i \in DOMAIN s : s[i].id = "n1"}

(***************************************************************************)
(* The same sessions against a server with one job at most, the ids of the *)
(* last All-mode snapshot recorded: what the list of all jobs holds.       *)
(***************************************************************************)
InitAll ==
    /\ notificationApi = TRUE
    /\ permission = "granted"
    /\ localStorage = "true"
    /\ isSignedIn = TRUE
    /\ responses = OneJobSnapshots
    /\ observe = {"feed", "all"}
    /\ Constructed

SpecAll == InitAll /\ [][NextIdle]_vars

(***************************************************************************)
(*                              The claims                                 *)
(***************************************************************************)
StrongCycleDone == cycle.kind = "relevance" /\ cycle.ok

(***************************************************************************)
(* C1.  With notifications enabled and no baseline re-arm between two      *)
(* consecutive successful strong-match cycles S1, S2, the ids notified in  *)
(* S2's cycle are exactly ids(S2) minus ids(S1), the diff being taken      *)
(* against SeenIdSet as it was before S2's cycle wrote it.  Stated at the  *)
(* state right after S2's cycle: notifications are on, a strong-match      *)
(* cycle has completed since they were turned on (or since the start), so  *)
(* SeenIdSet held ids(S1) when the cycle began.                            *)
(***************************************************************************)
C1_DiffIsSetDifference ==
    (StrongCycleDone /\ notificationsEnabled /\ ~cycle.first)
        => cycle.notified = cycle.valid \ cycle.seenBefore

(***************************************************************************)
(* C2 as claimed.  The first strong-match cycle to complete after the      *)
(* start or after enable() notifies nothing, adopts the ids of its         *)
(* snapshot as SeenIdSet and clears the baseline flag.                     *)
(***************************************************************************)
C2_BaselineAsClaimed ==
    (StrongCycleDone /\ cycle.first)
        => /\ cycle.notified = {}
           /\ previousStrongMatchJobIds = cycle.ids
           /\ ~isInitialRelevantJobsLoad

(***************************************************************************)
(* C2 amended.  That cycle notifies nothing and adopts the ids of its      *)
(* snapshot as SeenIdSet; it clears the baseline flag when its fetch was   *)
(* started with notifications enabled, and leaves the flag as it was       *)
(* otherwise.                                                              *)
(***************************************************************************)
C2_BaselineAdoption ==
    (StrongCycleDone /\ cycle.first)
        => /\ cycle.notified = {}
           /\ previousStrongMatchJobIds = cycle.ids
           /\ isInitialRelevantJobsLoad = (IF cycle.enabled THEN FALSE ELSE cycle.flagBefore)

(* A first cycle after enable(), run with notifications on, whose snapshot *)
(* holds valid ids.                                                        *)
C2_Witness ==
    /\ StrongCycleDone /\ cycle.first /\ cycle.enabled
    /\ cycle.valid # {}
    /\ localStorage = "true" /\ notificationsEnabled

(***************************************************************************)
(* C3 as claimed.  Between two re-arms of the baseline no id is shown      *)
(* natively twice, also when it was missing from a snapshot in between.    *)
(***************************************************************************)
C3_OncePerArmAsClaimed ==
    StrongCycleDone => cycle.native \cap cycle.armBefore = {}

(***************************************************************************)
(* C3 amended.  Between two re-arms of the baseline no id is shown         *)
(* natively twice as long as every strong-match snapshot fetched           *)
(* successfully in between contains it (snapshots have distinct ids).      *)
(***************************************************************************)
C3_OncePerRun ==
    StrongCycleDone => cycle.native \cap cycle.runBefore = {}

(* A cycle that shows one id natively while another, shown before and      *)
(* still in the snapshot, is not shown again.                              *)
C3_Witness ==
    /\ StrongCycleDone
    /\ cycle.native # {}
    /\ cycle.runBefore # {}
    /\ cycle.runBefore \subseteq previousStrongMatchJobIds

(***************************************************************************)
(* C4.  Right after every successful strong-match cycle SeenIdSet is the   *)
(* set of normalised ids of that cycle's snapshot.                         *)
(***************************************************************************)
C4_SeenIsSnapshot ==
    StrongCycleDone => previousStrongMatchJobIds = cycle.ids

(* A cycle run with notifications off whose snapshot lacks an id that was  *)
(* in SeenIdSet, and one that holds an entry without id.                   *)
C4_Witness ==
    /\ StrongCycleDone /\ ~cycle.enabled
    /\ cycle.seenBefore \ cycle.ids # {}
    /\ "null" \in cycle.ids

(***************************************************************************)
(* C5.  A manual refresh and a poll tick were both in flight and both      *)
(* pipelines have run, this cycle last: SeenIdSet is the ids of this       *)
(* cycle's snapshot, no id was notified by both, and an id that the first  *)
(* pipeline's diff found new and that is in this snapshot too was notified *)
(* by the first pipeline and not by this one.                              *)
(***************************************************************************)
Overlapped == StrongCycleDone /\ cycle.prev.has /\ cycle.prev.isPolling # cycle.isPolling

C5_LastWriteWins ==
    Overlapped
        => /\ previousStrongMatchJobIds = cycle.ids
           /\ cycle.notified \cap cycle.prev.notified = {}
           /\ \A id \in cycle.prev.new \cap cycle.valid :
                 id \in cycle.prev.notified /\ id \notin cycle.notified

(* The poll's pipeline ran first and notified an id, the manual refresh's  *)
(* snapshot holds that id and a new one.                                   *)
C5_Witness ==
    /\ Overlapped /\ ~cycle.isPolling
    /\ cycle.prev.notified \cap cycle.valid # {}
    /\ cycle.notified # {}

(* The manual refresh's pipeline ran first, the poll's second. *)
C5_WitnessPollLast ==
    /\ Overlapped /\ cycle.isPolling
    /\ cycle.prev.notified \cap cycle.valid # {}

(***************************************************************************)
(* C6.  While notifications have never been enabled, no cycle shows a      *)
(* native notification, a new-job toast or the summary toast, and every    *)
(* successful cycle puts its snapshot in FeedList.                         *)
(***************************************************************************)
C6_QuietWhileDisabled ==
    (cycle.kind # "none" /\ ~everEnabled)
        => /\ cycle.native = {} /\ cycle.jobToasts = 0 /\ ~cycle.summary
           /\ (cycle.ok /\ Mounted) => jobs = cycle.data

(* A strong-match cycle with a full snapshot, its list now in FeedList and *)
(* the baseline flag still set.                                            *)
C6_Witness ==
    /\ StrongCycleDone /\ ~everEnabled /\ Mounted
    /\ Len(cycle.data) = MaxSnapLen
    /\ jobs = cycle.data
    /\ isInitialRelevantJobsLoad

(* The conditions of the polling effect (line 463), as rendered. *)
StrongOn == notificationsEnabled /\ relevanceFilter = "strong"

(***************************************************************************)
(* C7.  At most one poll timer is active in every reachable state.         *)
(***************************************************************************)
C7_OneTimer == Cardinality(timers) <= 1

(* A timer is active that is not the first one started: a restart has      *)
(* taken place.                                                            *)
C7_Witness ==
    /\ pollingInterval # NoTimer
    /\ \E t \in timers : t.id # pollingInterval

(***************************************************************************)
(* C8.  A cancelled timer never ticks and none survives teardown: every    *)
(* active timer belongs to a mounted component whose rendered state is     *)
(* enabled and strong-match, and is the one the polling effect's cleanup   *)
(* will clear; a background fetch starts only in such a state.             *)
(***************************************************************************)
C8_NoTickAfterCancel ==
    /\ [](\A t \in timers :
             /\ Mounted /\ StrongOn
             /\ t.id = pollEffectCleanup
             /\ t.notificationsEnabled /\ t.relevanceFilter = "strong")
    /\ [][(\E f \in inflight' \ inflight : f.isPolling)
             => (Mounted /\ StrongOn /\ timers # {})]_vars

(* The component is gone after it had a timer, and a background fetch that *)
(* the timer started is still in flight.                                   *)
C8_Witness ==
    /\ phase = "unmounted"
    /\ pollingInterval # NoTimer
    /\ timers = {}
    /\ \E f \in inflight : f.isPolling

(***************************************************************************)
(* C9.  Once a timer runs, and as long as the component stays mounted with *)
(* notifications enabled in strong-match mode, that timer is neither       *)
(* cancelled nor replaced.                                                 *)
(***************************************************************************)
C9_TimerKeptWhileRunning ==
    [][(/\ timers # {}
        /\ Mounted /\ StrongOn
        /\ pending.notificationsEnabled /\ pending.relevanceFilter = "strong"
        /\ phase' = "mounted" /\ StrongOn'
        /\ pending'.notificationsEnabled /\ pending'.relevanceFilter = "strong")
            => timers' = timers]_vars

(***************************************************************************)
(* C10.  When no update of notificationsEnabled or of the mode is waiting  *)
(* for a render and the effects have run, a timer is active exactly when   *)
(* the component is mounted with notifications enabled in strong-match     *)
(* mode.                                                                   *)
(***************************************************************************)
Flushed ==
    /\ phase # "init"
    /\ pending.notificationsEnabled = notificationsEnabled
    /\ pending.relevanceFilter = relevanceFilter

C10_RunningIffEnabledStrong ==
    Flushed => (timers # {} <=> (Mounted /\ StrongOn))

(* Idle again after Running: notifications were switched off, the render   *)
(* has cancelled the timer.                                                *)
C10_Witness ==
    /\ Flushed /\ Mounted
    /\ ~notificationsEnabled /\ localStorage = "false"
    /\ relevanceFilter = "strong"
    /\ pollingInterval # NoTimer
    /\ timers = {}

(***************************************************************************)
(* The list shown (spec 4.4).                                              *)
(***************************************************************************)

(* A successful background poll of the strong matches has just been merged *)
(* into the list of a mounted page.                                        *)
PollMerged ==
    /\ cycle.kind = "relevance" /\ cycle.ok /\ cycle.isPolling
    /\ Mounted

(* The jobs of the snapshot whose id no entry of the list carries. *)
NewItems(previous, snapshot) ==
    LET Unlisted(job) == \A k \in DOMAIN previous : String(previous[k].id) # String(job.id)
    IN  SelectSeq(snapshot, Unlisted)

(***************************************************************************)
(* C11: a background merge puts the snapshot's jobs whose id is not in the *)
(* list, in snapshot order, in front of the previous list, which follows   *)
(* entry for entry with its local edits; when the snapshot brings no new   *)
(* id the list is the previous list; no entry is ever removed.             *)
(***************************************************************************)
C11_PollPrepends ==
    PollMerged =>
        /\ jobs = NewItems(cycle.jobsBefore, cycle.data) \o cycle.jobsBefore
        /\ NewItems(cycle.jobsBefore, cycle.data) = << >> => jobs = cycle.jobsBefore
        /\ Len(jobs) >= Len(cycle.jobsBefore)

(* A poll brings one new job to a list of two, one of them edited locally  *)
(* to a status no server sends.                                            *)
C11_Witness ==
    /\ PollMerged
    /\ Len(cycle.jobsBefore) = 2
    /\ \E k \in DOMAIN cycle.jobsBefore : cycle.jobsBefore[k].status = "rejected"
    /\ Len(NewItems(cycle.jobsBefore, cycle.data)) = 1
    /\ Len(cycle.data) = 2

(* A fetch that was not a background poll has just succeeded on a mounted  *)
(* page: the initial load, a manual refresh or a mode switch.              *)
ForegroundLoaded ==
    /\ cycle.kind \in {"relevance", "data"} /\ cycle.ok /\ ~cycle.isPolling
    /\ Mounted

(***************************************************************************)
(* C12: after a successful non-background fetch, in either mode, the list  *)
(* is the fetched snapshot: nothing of the previous list, local edits      *)
(* included, is left.                                                      *)
(***************************************************************************)
C12_ForegroundReplaces ==
    ForegroundLoaded => jobs = cycle.data

(* An All-mode fetch replaces a list of two jobs, one of them edited       *)
(* locally, by a snapshot that has the edited job with the server's status.*)
C12_Witness ==
    /\ ForegroundLoaded
    /\ cycle.kind = "data"
    /\ Len(cycle.jobsBefore) = 2
    /\ \E k \in DOMAIN cycle.jobsBefore, i \in DOMAIN jobs :
          /\ cycle.jobsBefore[k].status = "rejected"
          /\ jobs[i].id = cycle.jobsBefore[k].id
          /\ jobs[i].status = "available"

(***************************************************************************)
(* C13: the background merge is idempotent: merging the snapshot of a poll *)
(* a second time into the list the poll left gives that list again.        *)
(***************************************************************************)
C13_MergeIdempotent ==
    PollMerged => MergeJobs(jobs, cycle.data, "strong", TRUE) = jobs

(* The first merge changed a list that was not empty: it added a job that  *)
(* the second merge finds listed.                                          *)
C13_Witness ==
    /\ PollMerged
    /\ cycle.jobsBefore # << >>
    /\ jobs # cycle.jobsBefore
    /\ \E k \in DOMAIN cycle.jobsBefore : cycle.jobsBefore[k].status = "rejected"

(* The page shows all jobs: the switch away from strong-match mode has     *)
(* been rendered and no switch back has.                                   *)
AllMode == Mounted /\ relevanceFilter = "all"

(* No interval is left whose callback the browser could run. *)
SchedulerIdle == timers = {}

(* The All-mode fetch has just succeeded. *)
AllLoaded == cycle.kind = "data" /\ cycle.ok /\ Mounted

(***************************************************************************)
(* C14 as claimed: in All mode the scheduler is idle, the result of the    *)
(* All-mode fetch replaces the list, and no background merge changes the   *)
(* list before the mode is strong-match again.                             *)
(***************************************************************************)
C14_NoMergeInAllMode ==
    /\ (AllMode /\ ~InputQueued) => SchedulerIdle
    /\ AllLoaded => jobs = cycle.data
    /\ (AllMode /\ cycle.kind = "relevance" /\ cycle.isPolling) => jobs = cycle.jobsBefore

(***************************************************************************)
(* C14: in All mode the scheduler is idle, so that no poll starts before   *)
(* the mode is strong-match again, and the result of the All-mode fetch    *)
(* replaces the list; a poll in flight at the switch is still merged when  *)
(* it succeeds: its new jobs go in front of the list of all jobs.          *)
(***************************************************************************)
C14_AllModeStopsPolling ==
    /\ (AllMode /\ ~InputQueued) => SchedulerIdle
    /\ AllLoaded => jobs = cycle.data
    /\ (AllMode /\ PollMerged) =>
          jobs = NewItems(cycle.jobsBefore, cycle.data) \o cycle.jobsBefore

(* The scheduler is idle in All mode, the list of all jobs is shown, and a *)
(* poll started before the switch puts a job in front of it.               *)
C14_Witness ==
    /\ AllMode /\ PollMerged
    /\ SchedulerIdle
    /\ ~loading
    /\ inflight = {}
    /\ cycle.jobsBefore # << >>
    /\ Len(jobs) = Len(cycle.jobsBefore) + 1

(***************************************************************************)
(* The toggle (spec 4.6).                                                  *)
(***************************************************************************)

(***************************************************************************)
(* C15: enable() with the permission granted, at the click or in answer to *)
(* the request, ends with notifications enabled on the page, the stored    *)
(* preference 'true', the seen ids empty, the baseline flag true and the   *)
(* confirmation toast shown.                                               *)
(***************************************************************************)
C15_EnableGranted ==
    cycle.kind = "enable" =>
        /\ Mounted => pending.notificationsEnabled
        /\ localStorage = "true"
        /\ previousStrongMatchJobIds = {}
        /\ isInitialRelevantJobsLoad
        /\ cycle.toast = "Notifications Enabled"
        /\ permission = "granted"

(* The permission was not granted at mount and the request of the mount    *)
(* effect is still open: the grant came in answer to the toggle's request. *)
C15_Witness ==
    /\ cycle.kind = "enable"
    /\ Mounted
    /\ "mount" \in permissionRequests
    /\ ~notificationsEnabled

(* The permission request of enable() has just been denied or dismissed,   *)
(* or has thrown.                                                          *)
EnableRefused == cycle.kind \in {"denied", "error"}

(***************************************************************************)
(* C16: an enable() whose permission request is denied or throws changes   *)
(* nothing: notifications stay off, the stored preference, the seen ids    *)
(* and the baseline flag keep their values and no timer is started; a      *)
(* denial shows the error toast, a request that threw shows none.          *)
(***************************************************************************)
C16_RefusalChangesNothing ==
    /\ [](EnableRefused =>
            /\ ~pending.notificationsEnabled /\ ~notificationsEnabled
            /\ cycle.toast = IF cycle.kind = "denied" THEN "Notification Permission Denied"
                              ELSE "none")
    /\ [][EnableRefused' =>
            UNCHANGED << pending, notificationsEnabled, localStorage,
                         previousStrongMatchJobIds, isInitialRelevantJobsLoad, timers >>]_vars

(* A denial on a page that never stored a preference and has loaded jobs. *)
C16_Witness ==
    /\ cycle.kind = "denied"
    /\ Mounted
    /\ localStorage = "unset"
    /\ previousStrongMatchJobIds # {}
    /\ permission = "denied"

(***************************************************************************)
(* C17: disable() is one step that asks the browser nothing and ends with  *)
(* notifications off, the stored preference 'false', the seen ids empty    *)
(* and the baseline flag true.                                             *)
(***************************************************************************)
C17_DisableResets ==
    /\ [](cycle.kind = "disable" =>
            /\ ~pending.notificationsEnabled
            /\ localStorage = "false"
            /\ previousStrongMatchJobIds = {}
            /\ isInitialRelevantJobsLoad)
    /\ [][cycle'.kind = "disable" =>
            /\ notificationsEnabled
            /\ UNCHANGED << permission, permissionRequests >>]_vars

(* Notifications are switched off while the permission is still undecided  *)
(* and the timer runs: the preference came from an earlier session.        *)
C17_Witness ==
    /\ cycle.kind = "disable"
    /\ cycle.toast = "Notifications Disabled"
    /\ permission = "default"
    /\ timers # {}
    /\ inflight # {}

(***************************************************************************)
(* Failed fetches (spec 3 and 7).                                          *)
(***************************************************************************)

(* A request has just failed on a mounted page: status not 2xx or no       *)
(* response at all.                                                        *)
FetchFailed ==
    /\ cycle.kind \in {"relevance", "data"} /\ ~cycle.ok
    /\ Mounted

(* The list is the sample data, the error flag is set, the warning is      *)
(* shown and the page is not loading.                                      *)
FellBack ==
    /\ jobs = sampleJobs
    /\ apiError
    /\ cycle.toast = "API Unavailable"
    /\ ~loading

(***************************************************************************)
(* C18 as claimed: every failed fetch, of either mode, manual or           *)
(* background, ends with the sample data shown, the warning surfaced and   *)
(* the loading indicator cleared.                                          *)
(***************************************************************************)
C18_EveryFailureFallsBack ==
    FetchFailed => FellBack

(***************************************************************************)
(* C18: every failed fetch that is not a background poll, in either mode,  *)
(* ends with the sample data shown, the error flag set, the warning        *)
(* surfaced and the loading indicator cleared; a failed background poll    *)
(* shows no warning and leaves the list, the error flag and the loading    *)
(* indicator as they were.                                                 *)
(***************************************************************************)
C18_FallbackUnlessPolling ==
    /\ []((FetchFailed /\ ~cycle.isPolling) => FellBack)
    /\ []((FetchFailed /\ cycle.isPolling) => cycle.toast = "none")
    /\ [][(FetchFailed' /\ cycle'.isPolling) => UNCHANGED << jobs, apiError, loading >>]_vars

(* A poll fails while the list of the last successful load is shown: the   *)
(* list stays and no error is flagged.                                     *)
C18_Witness ==
    /\ FetchFailed /\ cycle.isPolling
    /\ Len(jobs) = 2
    /\ jobs # sampleJobs
    /\ ~apiError
    /\ ~loading

(***************************************************************************)
(* The notification gate (spec 4.3).                                       *)
(***************************************************************************)

(* The jobs the cycle that has just run found new. *)
NewInCycle == NewStrongMatchJobs(cycle.data, cycle.seenBefore)

(* The response of a strong-match fetch has just been processed with       *)
(* notifications on and the baseline taken: showNotification was called    *)
(* for the first of the new jobs at least.                                 *)
NotifyCalled ==
    /\ cycle.kind = "relevance"
    /\ cycle.enabled /\ ~cycle.flagBefore
    /\ NewInCycle # << >>

(* The browser shows native alerts. *)
CanAlert == notificationApi /\ permission = "granted"

(***************************************************************************)
(* C19: showNotification never throws: without the Notification API or     *)
(* without the permission it creates no native alert, shows the in-app     *)
(* message for each new job and returns, so that the cycle goes on to      *)
(* store the ids of its snapshot and to merge it into the list.            *)
(***************************************************************************)
C19_NotifyNeverThrows ==
    (NotifyCalled /\ ~CanAlert) =>
        /\ cycle.ok
        /\ cycle.native = {}
        /\ cycle.errorToasts = 0
        /\ cycle.jobToasts = Len(NewInCycle)
        /\ previousStrongMatchJobIds = IdSet(cycle.data)
        /\ Mounted => jobs = MergeJobs(cycle.jobsBefore, cycle.data, "strong", cycle.isPolling)

(***************************************************************************)
(* C20: every call of showNotification shows the in-app new-job toast      *)
(* exactly once, whether the native alert was shown, its construction      *)
(* threw or the browser cannot alert; a construction that throws is caught *)
(* and adds one error toast.                                               *)
(***************************************************************************)
C20_OneJobToastPerCall ==
    NotifyCalled =>
        /\ cycle.jobToasts = Len(NewInCycle)
        /\ cycle.errorToasts + Cardinality(cycle.native) =
              IF CanAlert THEN Len(NewInCycle) ELSE 0

(***************************************************************************)
(* The stored preference (spec 3).                                         *)
(***************************************************************************)

(* localStorage.getItem('notificationsEnabled') === 'true' (line 129). *)
Persisted == localStorage = "true"

(***************************************************************************)
(* C21: the stored preference agrees with the enabled flag of the page:    *)
(* the flag starts as the stored value, every enable() and disable(),      *)
(* refused ones included, leaves the two equal, and the rendered flag is   *)
(* the stored value once the update is rendered.                           *)
(***************************************************************************)
C21_PreferenceAgrees ==
    /\ phase # "unmounted" => (pending.notificationsEnabled <=> Persisted)
    /\ (Mounted /\ Flushed) => (notificationsEnabled <=> Persisted)

(* Notifications were on from an earlier visit, were switched off, and the *)
(* attempt to switch them on again was denied: 'false' stays stored.       *)
C21_Witness ==
    /\ Mounted
    /\ cycle.kind = "denied"
    /\ localStorage = "false"
    /\ ~pending.notificationsEnabled

(***************************************************************************)
(* The baseline flag (spec 3).                                             *)
(***************************************************************************)

(***************************************************************************)
(* C22 as claimed: once a strong-match fetch has completed successfully,   *)
(* with notifications on or off, the baseline flag is false; stated at the *)
(* state that fetch leaves, where no enable() can have followed yet.       *)
(***************************************************************************)
C22_FlagFalseAfterCycle ==
    StrongCycleDone => ~isInitialRelevantJobsLoad

(***************************************************************************)
(* C22: a successful strong-match fetch that was started with              *)
(* notifications on leaves the baseline flag false; one started with       *)
(* notifications off leaves the flag as it was; and the flag goes back to  *)
(* true only in enable() and disable().                                    *)
(***************************************************************************)
C22_FlagClearedWhenEnabled ==
    /\ []((StrongCycleDone /\ cycle.enabled) => ~isInitialRelevantJobsLoad)
    /\ [][(StrongCycleDone' /\ ~cycle'.enabled) => UNCHANGED isInitialRelevantJobsLoad]_vars
    /\ [][(~isInitialRelevantJobsLoad /\ isInitialRelevantJobsLoad')
            => cycle'.kind \in {"enable", "disable"}]_vars

(* A fetch started with notifications on completes after disable() and    *)
(* clears the flag that disable() had set.                                 *)
C22_Witness ==
    /\ StrongCycleDone /\ cycle.enabled
    /\ ~isInitialRelevantJobsLoad
    /\ ~notificationsEnabled /\ ~pending.notificationsEnabled
    /\ localStorage = "false"

(***************************************************************************)
(* Fetches that outlive the state they were started in (spec 5).           *)
(***************************************************************************)

(* A poll has just succeeded on a page whose scheduler is idle: the bell   *)
(* or the relevance selector stopped the timer while the poll was in       *)
(* flight.                                                                 *)
IdlePollDone ==
    /\ PollMerged
    /\ SchedulerIdle
    /\ ~StrongOn

(* The polls in flight. *)
PollsInFlight == {f \in inflight : f.isPolling}

(***************************************************************************)
(* C23: stopping the scheduler aborts no poll in flight, and a poll that   *)
(* succeeds while the scheduler is idle still replaces the seen ids by the *)
(* ids of its snapshot and puts its new jobs in front of the list.         *)
(***************************************************************************)
C23_InFlightPollCompletes ==
    /\ [](IdlePollDone =>
            /\ previousStrongMatchJobIds = IdSet(cycle.data)
            /\ jobs = NewItems(cycle.jobsBefore, cycle.data) \o cycle.jobsBefore)
    /\ [][(~SchedulerIdle /\ SchedulerIdle') => PollsInFlight \subseteq inflight']_vars

(* Notifications were switched off while a poll was in flight; the poll    *)
(* adds a job to the list shown and its ids become the seen ids.           *)
C23_Witness ==
    /\ IdlePollDone
    /\ ~notificationsEnabled /\ relevanceFilter = "strong"
    /\ cycle.jobsBefore # << >>
    /\ Len(jobs) > Len(cycle.jobsBefore)
    /\ previousStrongMatchJobIds # {}

(* The continuation of a background poll has just run, to its end or into  *)
(* the catch block.                                                        *)
PollCompleted == cycle.kind = "relevance" /\ cycle.isPolling

(* The continuation of a fetch that was not a background poll has just run.*)
ForegroundCompleted == cycle.kind \in {"relevance", "data"} /\ ~cycle.isPolling

(***************************************************************************)
(* C24: neither the start nor the completion of a background poll, failed  *)
(* or not, changes the loading indicator or the last-refresh time; the     *)
(* indicator goes on only in a step that starts a non-background fetch and *)
(* off only in the completion of one.                                      *)
(***************************************************************************)
C24_PollLeavesIndicators ==
    /\ [][PollCompleted' => UNCHANGED << loading, lastRefreshTime >>]_vars
    /\ [][~(PollsInFlight' \subseteq PollsInFlight)
            => UNCHANGED << loading, lastRefreshTime >>]_vars
    /\ [][(~loading /\ loading') => inflight' \ PollsInFlight' # {}]_vars
    /\ [][(loading /\ ~loading') => ForegroundCompleted']_vars

(* A poll succeeds and brings a job while the page is still loading and    *)
(* has never been refreshed.                                               *)
C24_Witness ==
    /\ PollMerged
    /\ jobs # << >>
    /\ loading
    /\ lastRefreshTime = "initial"

(***************************************************************************)
(* C25: while notifications are off, as set and as rendered, no cycle      *)
(* shows a native alert, a new-job toast or the summary toast, also when   *)
(* the fetch was started before disable().                                 *)
(***************************************************************************)
C25_SilentWhileDisabled ==
    (cycle.kind = "relevance" /\ ~notificationsEnabled /\ ~pending.notificationsEnabled)
        => /\ cycle.native = {}
           /\ cycle.jobToasts = 0
           /\ ~cycle.summary

(* A strong-match request has just failed. *)
StrongFailed == cycle.kind = "relevance" /\ ~cycle.ok

(***************************************************************************)
(* C26: a failed strong-match fetch, manual or background, changes neither *)
(* the seen ids nor the baseline flag and shows no notification; a failed  *)
(* background fetch changes neither the list nor the error flag.           *)
(***************************************************************************)
C26_FailureLeavesRefs ==
    /\ [][StrongFailed' =>
            UNCHANGED << previousStrongMatchJobIds, isInitialRelevantJobsLoad >>]_vars
    /\ [](StrongFailed => (cycle.native = {} /\ cycle.jobToasts = 0 /\ ~cycle.summary))
    /\ [][(StrongFailed' /\ cycle'.isPolling) => UNCHANGED << jobs, apiError >>]_vars

(* A manual refresh fails after the baseline was taken on a snapshot with  *)
(* jobs: the seen ids stay while the list becomes the sample data.         *)
C26_Witness ==
    /\ StrongFailed /\ ~cycle.isPolling
    /\ Mounted
    /\ previousStrongMatchJobIds # {}
    /\ ~isInitialRelevantJobsLoad
    /\ jobs = sampleJobs
    /\ cycle.jobsBefore # sampleJobs

(***************************************************************************)
(* C27: the snapshots having pairwise distinct normalised ids, no two      *)
(* entries of the list have the same normalised id, whatever the order of  *)
(* replacements, background merges, fallbacks to the sample data and       *)
(* status edits.                                                           *)
(***************************************************************************)
C27_ListIdsDistinct ==
    DistinctIds(jobs)

(* A poll is merged into the sample data, one entry of which carries a     *)
(* local edit: its two jobs have the ids '1' and "2" of sample entries and *)
(* are not added.                                                          *)
C27_Witness ==
    /\ PollMerged
    /\ Len(cycle.data) = 2
    /\ Len(jobs) = Len(sampleJobs)
    /\ \E k \in DOMAIN jobs : jobs[k].src = "sample" /\ jobs[k].status = "rejected"
    /\ \E i \in DOMAIN cycle.data : cycle.data[i].id = "s1"

(***************************************************************************)
(* C28: while the error flag is off the list holds no entry of the sample  *)
(* data, also after a background poll that succeeds on a list that a       *)
(* failed fetch replaced by the sample data.                               *)
(***************************************************************************)
C28_NoSampleWithoutError ==
    ~apiError => \A k \in DOMAIN jobs : jobs[k].src # "sample"

(* The page shows all jobs, every request has been answered and the last   *)
(* answer was a success.                                                   *)
AllModeSettled ==
    /\ AllMode /\ ~InputQueued
    /\ inflight = {}
    /\ cycle.kind \in {"relevance", "data"} /\ cycle.ok

(***************************************************************************)
(* C29: when the page shows all jobs, no fetch is in flight and the last   *)
(* one succeeded, the ids of the list are the ids of the last All-mode     *)
(* snapshot: no strong-match fetch has replaced or extended the list.      *)
(***************************************************************************)
C29_AllModeListIsAllSnapshot ==
    AllModeSettled => (lastAll.has /\ IdSet(jobs) = lastAll.ids)

(***************************************************************************)
(* C30: no fetch of the job list, whether initial, on a mode change,       *)
(* manual or by the background timer, is issued while the caller is not    *)
(* authenticated.                                                          *)
(***************************************************************************)
C30_NoFetchUnauthenticated ==
    [][(\E f \in inflight' : f \notin inflight) => isSignedIn']_vars

====
